---- MODULE Spec2Model ----
(***************************************************************************)
(* Model of src/normalize-options.ts: normalizeOptions(manifest, options)  *)
(* and its validators.  JavaScript values are records [type, v]; a string  *)
(* is the sequence of its characters, so that trim and encodeURIComponent  *)
(* are computed character by character.                                    *)
(***************************************************************************)
EXTENDS Integers, Sequences, FiniteSets, TLC

VARIABLES manifest, options, pc, result, thrown, prev

vars == <<manifest, options, pc, result, thrown, prev>>

(* ------------------------------------------------------------------ *)
(* JavaScript values                                                   *)
(* ------------------------------------------------------------------ *)

Undefined == [type |-> "undefined", v |-> <<>>]
Null == [type |-> "null", v |-> <<>>]
Str(chars) == [type |-> "string", v |-> chars]
Bool(b) == [type |-> "boolean", v |-> IF b THEN <<"t", "r", "u", "e">> ELSE <<"f", "a", "l", "s", "e">>]
Num(digits) == [type |-> "number", v |-> digits]
Url(href) == [type |-> "URL", v |-> href]

\* An unpaired UTF-16 surrogate code unit (for instance "\uD800"), one character of a string.
LoneSurrogate == "<D800>"

\* a ?? b
Coalesce(a, b) == IF a.type \in {"undefined", "null"} THEN b ELSE a

\* Boolean(value)
Truthy(value) ==
    CASE value.type \in {"undefined", "null"} -> FALSE
      [] value.type = "boolean" -> value.v = <<"t", "r", "u", "e">>
      [] value.type = "string" -> Len(value.v) > 0
      [] value.type = "number" -> value.v # <<"0">>
      [] OTHER -> TRUE

\* A completion of a call: a returned value, or a thrown error carrying a value.
Return(value) == [threw |-> FALSE, error |-> "none", value |-> value]
Throw(error, value) == [threw |-> TRUE, error |-> error, value |-> value]

\* Boolean, as the validator of the boolean options: it never throws.
ToBoolean(value) == Return(Bool(Truthy(value)))

(* ------------------------------------------------------------------ *)
(* Program constants                                                   *)
(* ------------------------------------------------------------------ *)

REGISTRY_NPM == Str(<<"h", "t", "t", "p", "s", ":", "/", "/", "r", "e", "g", "i", "s", "t", "r", "y", ".", "n", "p", "m", "j", "s", ".", "o", "r", "g", "/">>)
TAG_LATEST == Str(<<"l", "a", "t", "e", "s", "t">>)
ACCESS_PUBLIC == Str(<<"p", "u", "b", "l", "i", "c">>)
ACCESS_RESTRICTED == Str(<<"r", "e", "s", "t", "r", "i", "c", "t", "e", "d">>)
STRATEGY_ALL == Str(<<"a", "l", "l">>)
STRATEGY_UPGRADE == Str(<<"u", "p", "g", "r", "a", "d", "e">>)
\* os.tmpdir()
OsTmpdir == Str(<<"/", "t", "m", "p">>)

(* ------------------------------------------------------------------ *)
(* String functions                                                    *)
(* ------------------------------------------------------------------ *)

Letters == {"a", "b", "c", "d", "e", "f", "g", "h", "i", "j", "k", "l", "m",
            "n", "o", "p", "q", "r", "s", "t", "u", "v", "w", "x", "y", "z"}
Digits == {"0", "1", "2", "3", "4", "5", "6", "7", "8", "9"}

\* WhiteSpace and LineTerminator characters, as String.prototype.trim strips them.
WhiteSpace == {" ", "\t", "\n"}

\* The characters encodeURIComponent leaves alone.
Unreserved == Letters \cup Digits \cup {"-", "_", ".", "!", "~", "*", "'", "(", ")"}

RECURSIVE TrimStart(_)
TrimStart(chars) ==
    IF chars # <<>> /\ Head(chars) \in WhiteSpace THEN TrimStart(Tail(chars)) ELSE chars

RECURSIVE TrimEnd(_)
TrimEnd(chars) ==
    IF chars # <<>> /\ chars[Len(chars)] \in WhiteSpace
    THEN TrimEnd(SubSeq(chars, 1, Len(chars) - 1))
    ELSE chars

\* String.prototype.trim
Trim(chars) == TrimEnd(TrimStart(chars))

\* The two hexadecimal digits of the UTF-8 octet of an ASCII character.
PercentCode(c) ==
    CASE c = " " -> <<"2", "0">>
      [] c = "\t" -> <<"0", "9">>
      [] c = "\n" -> <<"0", "A">>
      [] c = "%" -> <<"2", "5">>
      [] c = "/" -> <<"2", "F">>
      [] c = ":" -> <<"3", "A">>
      [] c = "@" -> <<"4", "0">>
      [] OTHER -> <<"3", "F">>

RECURSIVE EncodeChars(_)
EncodeChars(chars) ==
    IF chars = <<>> THEN <<>>
    ELSE (IF Head(chars) \in Unreserved THEN <<Head(chars)>>
          ELSE <<"%">> \o PercentCode(Head(chars))) \o EncodeChars(Tail(chars))

\* encodeURIComponent: throws URIError on an unpaired surrogate.
EncodeURIComponent(chars) ==
    IF \E i \in 1..Len(chars) : chars[i] = LoneSurrogate
    THEN Throw("URIError", Str(chars))
    ELSE Return(Str(EncodeChars(chars)))

\* String(value), as the URL constructor converts its argument.
ToStringChars(value) ==
    CASE value.type = "undefined" -> <<"u", "n", "d", "e", "f", "i", "n", "e", "d">>
      [] value.type = "null" -> <<"n", "u", "l", "l">>
      [] OTHER -> value.v

\* The first position from i on where chars holds c, 0 when there is none.
RECURSIVE IndexOf(_, _, _)
IndexOf(chars, c, i) ==
    IF i > Len(chars) THEN 0
    ELSE IF chars[i] = c THEN i
    ELSE IndexOf(chars, c, i + 1)

SpecialSchemes == {<<"h", "t", "t", "p">>, <<"h", "t", "t", "p", "s">>}

\* The position of the colon ending a URL scheme, 0 when chars starts with no scheme.
SchemeEnd(chars) ==
    LET colon == IndexOf(chars, ":", 1)
    IN IF /\ colon > 1
          /\ chars[1] \in Letters
          /\ \A j \in 1..(colon - 1) : chars[j] \in Letters \cup Digits \cup {"+", "-", "."}
       THEN colon
       ELSE 0

RECURSIVE SkipSlashes(_)
SkipSlashes(chars) ==
    IF chars # <<>> /\ Head(chars) = "/" THEN SkipSlashes(Tail(chars)) ELSE chars

\* The authority of a special URL: what follows the slashes, up to the next "/".
HostOf(rest) ==
    LET after == SkipSlashes(rest)
        slash == IndexOf(after, "/", 1)
    IN IF slash = 0 THEN after ELSE SubSeq(after, 1, slash - 1)

\* Whether new URL(chars) succeeds without a base: chars is an absolute URL.
IsAbsoluteUrl(chars) ==
    LET colon == SchemeEnd(chars)
        scheme == SubSeq(chars, 1, colon - 1)
        rest == SubSeq(chars, colon + 1, Len(chars))
        host == HostOf(rest)
    IN /\ colon > 0
       /\ scheme \in SpecialSchemes =>
            /\ host # <<>>
            /\ \A i \in 1..Len(host) : host[i] \in Letters \cup Digits \cup {"-", ".", "_"}

\* The href of the parsed URL: a special URL with an empty path gets the path "/".
Href(chars) ==
    LET colon == SchemeEnd(chars)
        scheme == SubSeq(chars, 1, colon - 1)
        rest == SubSeq(chars, colon + 1, Len(chars))
        after == SkipSlashes(rest)
    IN IF scheme \in SpecialSchemes
       THEN scheme \o <<":", "/", "/">> \o
            (IF IndexOf(after, "/", 1) > 0 THEN after ELSE after \o <<"/">>)
       ELSE chars

\* new URL(value)
NewURL(value) ==
    LET chars == ToStringChars(value)
    IN IF IsAbsoluteUrl(chars) THEN Return(Url(Href(chars))) ELSE Throw("TypeError", value)

(* ------------------------------------------------------------------ *)
(* Validators                                                          *)
(* ------------------------------------------------------------------ *)

\* validateToken with the length check forgotten.
validateTokenAnyString(value) ==
    IF value.type = "string"
    THEN Return(value)
    ELSE Throw("InvalidTokenError", Undefined)

validateToken(value) ==
    IF value.type = "string" /\ Len(value.v) > 0
    THEN Return(value)
    ELSE Throw("InvalidTokenError", Undefined)

validateRegistry(value) ==
    LET url == NewURL(value)
    IN IF url.threw THEN Throw("InvalidRegistryUrlError", value) ELSE url

\* validateTag with the untrimmed value encoded and compared.
validateTagUntrimmed(value) ==
    IF value.type = "string"
    THEN LET encodedValue == EncodeURIComponent(value.v)
         IN IF encodedValue.threw
            THEN encodedValue
            ELSE IF Len(value.v) > 0 /\ value.v = encodedValue.value.v
                 THEN Return(value)
                 ELSE Throw("InvalidTagError", value)
    ELSE Throw("InvalidTagError", value)

validateTag(value) ==
    IF value.type = "string"
    THEN LET trimmedValue == Trim(value.v)
             encodedValue == EncodeURIComponent(trimmedValue)
         IN IF encodedValue.threw
            THEN encodedValue
            ELSE IF Len(trimmedValue) > 0 /\ trimmedValue = encodedValue.value.v
                 THEN Return(value)
                 ELSE Throw("InvalidTagError", value)
    ELSE Throw("InvalidTagError", value)

\* validateAccess with "restricted" forgotten.
validateAccessPublicOnly(value) ==
    IF value = Undefined \/ value = ACCESS_PUBLIC
    THEN Return(value)
    ELSE Throw("InvalidAccessError", value)

validateAccess(value) ==
    IF value = Undefined \/ value = ACCESS_PUBLIC \/ value = ACCESS_RESTRICTED
    THEN Return(value)
    ELSE Throw("InvalidAccessError", value)

validateStrategy(value) ==
    IF value = STRATEGY_ALL \/ value = STRATEGY_UPGRADE
    THEN Return(value)
    ELSE Throw("InvalidStrategyError", value)

\* value == undefined, which null satisfies too.
IsDefaultLoose(value) == value.type \in {"undefined", "null"}

\* value === undefined
IsDefault(value) == value = Undefined

\* validate(value), for the validator functions that setValue is passed.
Call(validate, value) ==
    CASE validate = "validateTag" -> validateTag(value)
      [] validate = "validateAccess" -> validateAccess(value)
      [] validate = "validateStrategy" -> validateStrategy(value)
      [] validate = "Boolean" -> ToBoolean(value)

\* setValue: the validated value-or-default, and whether the raw value was absent.
setValue(value, defaultValue, validate) ==
    LET validated == Call(validate, Coalesce(value, defaultValue))
    IN IF validated.threw
       THEN validated
       ELSE Return([value |-> validated.value, isDefault |-> IsDefault(value)])

(* ------------------------------------------------------------------ *)
(* normalizeOptions                                                    *)
(* ------------------------------------------------------------------ *)

\* manifest.publishConfig?.<field>
PublishConfigField(m, field) ==
    IF m.publishConfig.type = "object" THEN m.publishConfig[field] ELSE Undefined

\* The manifest processed whatever the flag.
ProcessManifestAlways(opts) == TRUE

\* options.forceCommandLineOptions === false
ProcessManifestOnlyFalse(opts) == opts.forceCommandLineOptions = Bool(FALSE)

\* options.forceCommandLineOptions == undefined || !options.forceCommandLineOptions
ProcessManifest(opts) ==
    \/ opts.forceCommandLineOptions.type \in {"undefined", "null"}
    \/ ~Truthy(opts.forceCommandLineOptions)

\* ACCESS_PUBLIC whatever the scope.
InitialDefaultAccessPublic(m) == ACCESS_PUBLIC

\* manifest.scope === undefined ? ACCESS_PUBLIC : undefined
InitialDefaultAccess(m) == IF m.scope = Undefined THEN ACCESS_PUBLIC ELSE Undefined

\* The four defaults after the manifest has been processed, or skipped.
ResolveDefaults(m, opts) ==
    IF ProcessManifest(opts)
    THEN [defaultTag |-> Coalesce(PublishConfigField(m, "tag"), TAG_LATEST),
          defaultRegistry |-> Coalesce(PublishConfigField(m, "registry"), REGISTRY_NPM),
          defaultAccess |-> Coalesce(PublishConfigField(m, "access"), InitialDefaultAccess(m)),
          defaultProvenance |-> Coalesce(PublishConfigField(m, "provenance"), Bool(FALSE))]
    ELSE [defaultTag |-> TAG_LATEST,
          defaultRegistry |-> REGISTRY_NPM,
          defaultAccess |-> InitialDefaultAccess(m),
          defaultProvenance |-> Bool(FALSE)]

\* The completion of normalizeOptions(m, opts): the properties of the returned
\* object are evaluated in the order they are written, and the first validator
\* that throws ends the call.
normalizeOptions(m, opts) ==
    LET d == ResolveDefaults(m, opts)
        token == validateToken(opts.token)
        registry == validateRegistry(Coalesce(opts.registry, d.defaultRegistry))
        tag == setValue(opts.tag, d.defaultTag, "validateTag")
        access == setValue(opts.access, d.defaultAccess, "validateAccess")
        provenance == setValue(opts.provenance, d.defaultProvenance, "Boolean")
        ignoreScripts == setValue(opts.ignoreScripts, Bool(TRUE), "Boolean")
        dryRun == setValue(opts.dryRun, Bool(FALSE), "Boolean")
        strategy == setValue(opts.strategy, STRATEGY_ALL, "validateStrategy")
    IN CASE token.threw -> token
         [] ~token.threw /\ registry.threw -> registry
         [] ~token.threw /\ ~registry.threw /\ tag.threw -> tag
         [] ~token.threw /\ ~registry.threw /\ ~tag.threw /\ access.threw -> access
         [] ~token.threw /\ ~registry.threw /\ ~tag.threw /\ ~access.threw
              /\ provenance.threw -> provenance
         [] ~token.threw /\ ~registry.threw /\ ~tag.threw /\ ~access.threw
              /\ ~provenance.threw /\ ignoreScripts.threw -> ignoreScripts
         [] ~token.threw /\ ~registry.threw /\ ~tag.threw /\ ~access.threw
              /\ ~provenance.threw /\ ~ignoreScripts.threw /\ dryRun.threw -> dryRun
         [] ~token.threw /\ ~registry.threw /\ ~tag.threw /\ ~access.threw
              /\ ~provenance.threw /\ ~ignoreScripts.threw /\ ~dryRun.threw
              /\ strategy.threw -> strategy
         [] OTHER ->
              Return([token |-> token.value,
                      registry |-> registry.value,
                      tag |-> tag.value,
                      access |-> access.value,
                      provenance |-> provenance.value,
                      ignoreScripts |-> ignoreScripts.value,
                      dryRun |-> dryRun.value,
                      strategy |-> strategy.value,
                      logger |-> opts.logger,
                      temporaryDirectory |-> Coalesce(opts.temporaryDirectory, OsTmpdir)])

(* ------------------------------------------------------------------ *)
(* Inputs                                                              *)
(* ------------------------------------------------------------------ *)

MaxTagLen == 3

\* An unreserved character, a whitespace character, a reserved character
\* and an unpaired surrogate.
TagAlphabet == {"a", " ", "/", LoneSurrogate}

StringsUpTo(n) == UNION {[1..k -> TagAlphabet] : k \in 0..n}

TagCandidates ==
    {Str(chars) : chars \in StringsUpTo(MaxTagLen)}
        \cup {Str(<<"b", "e", "t", "a", " ">>), Str(<<" ", "b", "e", "t", "a">>),
              Num(<<"4", "2">>), Bool(TRUE)}

Tokens == {Undefined, Str(<<>>), Str(<<"a", "b", "c">>), Num(<<"4", "2">>)}

Registries == {Undefined, Str(<<"n", "o", "t", " ", "a", " ", "u", "r", "l">>)}

Tags == {Undefined, TAG_LATEST, Str(<<"b", "e", "t", "a", " ">>), Str(<<"a", "/", "b">>),
         Str(<<LoneSurrogate>>)}

Accesses == {Undefined, Null, ACCESS_PUBLIC, ACCESS_RESTRICTED,
             Str(<<"i", "n", "v", "a", "l", "i", "d">>)}

Provenances == {Undefined, Bool(FALSE)}

IgnoreScriptsValues == {Undefined, Bool(TRUE)}

DryRuns == {Undefined, Str(<<"y", "e", "s">>)}

Strategies == {Undefined, STRATEGY_UPGRADE, Str(<<"i", "n", "v", "a", "l", "i", "d">>)}

ForceValues == {Undefined, Bool(TRUE), Bool(FALSE)}

\* Every combination of the values above of the user's options.
Options ==
    [token : Tokens, registry : Registries, tag : Tags, access : Accesses,
     provenance : Provenances, ignoreScripts : IgnoreScriptsValues, dryRun : DryRuns,
     strategy : Strategies, logger : {Undefined}, temporaryDirectory : {Undefined},
     forceCommandLineOptions : ForceValues]

\* The options that leave the defaults to decide: what the manifest can change.
ManifestOptions ==
    [token : {Str(<<"a", "b", "c">>)}, registry : {Undefined}, tag : {Undefined, TAG_LATEST},
     access : {Undefined, Null, ACCESS_PUBLIC}, provenance : Provenances,
     ignoreScripts : {Undefined}, dryRun : {Undefined}, strategy : {Undefined},
     logger : {Undefined}, temporaryDirectory : {Undefined, Str(<<"/", "w">>)},
     forceCommandLineOptions : ForceValues \cup {Str(<<"y", "e", "s">>)}]

ExampleRegistry ==
    Str(<<"h", "t", "t", "p", "s", ":", "/", "/", "e", "x", "a", "m", "p", "l", "e", ".", "c", "o", "m", "/">>)

Scopes == {Undefined, Str(<<"@", "a", "c", "m", "e">>)}

NoPublishConfig ==
    [type |-> "undefined", tag |-> Undefined, registry |-> Undefined,
     access |-> Undefined, provenance |-> Undefined]

PublishConfigs ==
    [type : {"object"},
     tag : {Undefined, Null, Str(<<"n", "e", "x", "t">>), Str(<<"a", " ", "b">>),
            Str(<<LoneSurrogate>>), Num(<<"4", "2">>)},
     registry : {Undefined, ExampleRegistry, Str(<<"h", "t", "t", "p", "s", ":", "/", "/">>)},
     access : {Undefined, Null, ACCESS_RESTRICTED, Str(<<"i", "n", "v", "a", "l", "i", "d">>)},
     provenance : {Undefined, Bool(TRUE), Bool(FALSE)}]

\* Every manifest of the scopes and publishConfig records above.
Manifests == [scope : Scopes, publishConfig : {NoPublishConfig} \cup PublishConfigs]

\* A manifest without publishConfig, one whose publishConfig sets every default,
\* and one whose publishConfig.tag and publishConfig.access are invalid.
SmallManifests ==
    [scope : Scopes,
     publishConfig : {NoPublishConfig,
                      [type |-> "object", tag |-> Str(<<"n", "e", "x", "t">>),
                       registry |-> ExampleRegistry, access |-> ACCESS_RESTRICTED,
                       provenance |-> Bool(TRUE)],
                      [type |-> "object", tag |-> Str(<<"a", " ", "b">>),
                       registry |-> Undefined,
                       access |-> Str(<<"i", "n", "v", "a", "l", "i", "d">>),
                       provenance |-> Undefined]}]

\* The two sides of the comparison of one options record under two manifests.
ForceManifests ==
    [scope : Scopes \cup {Str(<<"@", "b">>)},
     publishConfig : {NoPublishConfig} \cup
        [type : {"object"},
         tag : {Undefined, Str(<<"n", "e", "x", "t">>), Str(<<"a", " ", "b">>)},
         registry : {Undefined, ExampleRegistry},
         access : {Undefined, ACCESS_RESTRICTED},
         provenance : {Undefined, Bool(TRUE)}]]

ForceOptions ==
    [token : {Str(<<"a", "b", "c">>)}, registry : {Undefined}, tag : {Undefined, TAG_LATEST},
     access : {Undefined, ACCESS_RESTRICTED}, provenance : {Undefined},
     ignoreScripts : {Undefined}, dryRun : {Undefined}, strategy : {Undefined},
     logger : {Undefined}, temporaryDirectory : {Undefined},
     forceCommandLineOptions : ForceValues \cup {Str(<<"y", "e", "s">>)}]

\* The options that leave validateTag alone to decide the outcome of the call.
TagOptions ==
    [token : {Str(<<"a", "b", "c">>)}, registry : {Undefined}, tag : TagCandidates,
     access : {Undefined}, provenance : {Undefined}, ignoreScripts : {Undefined},
     dryRun : {Undefined}, strategy : {Undefined}, logger : {Undefined},
     temporaryDirectory : {Undefined}, forceCommandLineOptions : {Undefined}]

EmptyManifest == [scope |-> Undefined, publishConfig |-> NoPublishConfig]

(* ------------------------------------------------------------------ *)
(* The call                                                            *)
(* ------------------------------------------------------------------ *)

NoError == [error |-> "none", value |-> Undefined]
NoCall == [pc |-> "none"]

Called ==
    /\ pc = "called"
    /\ result = Undefined
    /\ thrown = NoError
    /\ prev = NoCall

Init ==
    /\ \/ manifest \in SmallManifests /\ options \in Options
       \/ manifest \in Manifests /\ options \in ManifestOptions
    /\ Called

InitTag ==
    /\ manifest = EmptyManifest
    /\ options \in TagOptions
    /\ Called

InitForce ==
    /\ manifest \in ForceManifests
    /\ options \in ForceOptions
    /\ Called

\* normalizeOptions returns a NormalizedOptions.
ReturnOptions ==
    LET completion == normalizeOptions(manifest, options)
    IN /\ pc = "called"
       /\ ~completion.threw
       /\ pc' = "returned"
       /\ result' = completion.value
       /\ UNCHANGED <<manifest, options, thrown, prev>>

\* normalizeOptions throws.
ThrowError ==
    LET completion == normalizeOptions(manifest, options)
    IN /\ pc = "called"
       /\ completion.threw
       /\ pc' = "threw"
       /\ thrown' = [error |-> completion.error, value |-> completion.value]
       /\ UNCHANGED <<manifest, options, result, prev>>

\* The caller calls normalizeOptions once more, with the same options and
\* another manifest, and keeps the outcome of the first call.
CallAgain ==
    /\ pc \in {"returned", "threw"}
    /\ prev.pc = "none"
    /\ \E m \in ForceManifests : manifest' = m
    /\ prev' = [pc |-> pc, manifest |-> manifest, result |-> result, thrown |-> thrown]
    /\ pc' = "called"
    /\ result' = Undefined
    /\ thrown' = NoError
    /\ UNCHANGED options

Next == ReturnOptions \/ ThrowError

NextForce == ReturnOptions \/ ThrowError \/ CallAgain

Spec == Init /\ [][Next]_vars

SpecTag == InitTag /\ [][Next]_vars

SpecForce == InitForce /\ [][NextForce]_vars

(* ------------------------------------------------------------------ *)
(* What the specification says of the inputs                           *)
(* ------------------------------------------------------------------ *)

Finished == pc \in {"returned", "threw"}

Absent(value) == value.type \in {"undefined", "null"}

\* The manifest declares publishConfig.<field>.
Declares(m, field) == m.publishConfig.type = "object" /\ ~Absent(m.publishConfig[field])

\* The candidate each validator is given: the raw option, or else the resolved default.
RegistryCandidate == Coalesce(options.registry, ResolveDefaults(manifest, options).defaultRegistry)
TagCandidate == Coalesce(options.tag, ResolveDefaults(manifest, options).defaultTag)
AccessCandidate == Coalesce(options.access, ResolveDefaults(manifest, options).defaultAccess)
StrategyCandidate == Coalesce(options.strategy, STRATEGY_ALL)

\* A non-empty string.
TokenOk(value) == value.type = "string" /\ value.v # <<>>

\* Parses as an absolute URL.
RegistryOk(value) == IsAbsoluteUrl(ToStringChars(value))

\* A string whose trimmed form is non-empty and holds no character that
\* percent-encoding alters.
TagOk(value) ==
    /\ value.type = "string"
    /\ Trim(value.v) # <<>>
    /\ \A i \in 1..Len(Trim(value.v)) : Trim(value.v)[i] \in Unreserved

AccessOk(value) == value \in {Undefined, ACCESS_PUBLIC, ACCESS_RESTRICTED}

StrategyOk(value) == value \in {STRATEGY_ALL, STRATEGY_UPGRADE}

\* The error of the earliest invalid field, in the order token, registry, tag,
\* access, strategy; "none" when every field is valid.
EarliestInvalidFieldError ==
    IF ~TokenOk(options.token) THEN "InvalidTokenError"
    ELSE IF ~RegistryOk(RegistryCandidate) THEN "InvalidRegistryUrlError"
    ELSE IF ~TagOk(TagCandidate) THEN "InvalidTagError"
    ELSE IF ~AccessOk(AccessCandidate) THEN "InvalidAccessError"
    ELSE IF ~StrategyOk(StrategyCandidate) THEN "InvalidStrategyError"
    ELSE "none"

NormalizedFields ==
    {"token", "registry", "tag", "access", "provenance", "ignoreScripts", "dryRun",
     "strategy", "logger", "temporaryDirectory"}

TrackedFields == {"tag", "access", "provenance", "ignoreScripts", "dryRun", "strategy"}

(* ------------------------------------------------------------------ *)
(* Claims                                                              *)
(* ------------------------------------------------------------------ *)

\* C1: a finished call has either returned a complete NormalizedOptions and
\* thrown nothing, or thrown one error and returned nothing; it throws exactly
\* when some field is invalid, and the error is the one of the earliest invalid
\* field in the order token, registry, tag, access, strategy.
C1_EarliestInvalidFieldWins ==
    Finished =>
        /\ pc = "returned" =>
              /\ thrown = NoError
              /\ DOMAIN result = NormalizedFields
              /\ EarliestInvalidFieldError = "none"
        /\ pc = "threw" =>
              /\ result = Undefined
              /\ thrown.error # "none"
              /\ thrown.error = EarliestInvalidFieldError

\* C1 with every tag candidate free of unpaired surrogates.
C1_EarliestInvalidFieldWinsWellFormed ==
    (\A i \in 1..Len(TagCandidate.v) : TagCandidate.v[i] # LoneSurrogate)
        => C1_EarliestInvalidFieldWins

SameOutcome ==
    /\ prev.pc = pc
    /\ pc = "threw" => prev.thrown = thrown
    /\ pc = "returned" => prev.result = result

BothCalled == Finished /\ prev.pc # "none"

C4_DefaultTag ==
    (pc = "returned" /\ options.tag = Undefined) =>
        /\ result.tag.isDefault
        /\ result.tag.value =
             IF ~Truthy(options.forceCommandLineOptions) /\ Declares(manifest, "tag")
             THEN manifest.publishConfig.tag
             ELSE TAG_LATEST

\* C4 witness: forceCommandLineOptions true, publishConfig.tag "next", no
\* options.tag: the call returned the tag "latest".
C4_Witness ==
    /\ pc = "returned"
    /\ options.tag = Undefined
    /\ options.forceCommandLineOptions = Bool(TRUE)
    /\ Declares(manifest, "tag")
    /\ manifest.publishConfig.tag = Str(<<"n", "e", "x", "t">>)
    /\ result.tag = [value |-> TAG_LATEST, isDefault |-> TRUE]

\* C5: a returned call with options.access undefined has access.isDefault
\* true; without publishConfig.access its access.value is "public" when the
\* manifest has no scope and undefined when it has one; with
\* forceCommandLineOptions falsy and publishConfig.access declared it is that value.
C5_DefaultAccess ==
    (pc = "returned" /\ options.access = Undefined) =>
        /\ result.access.isDefault
        /\ ~Declares(manifest, "access") =>
              result.access.value =
                  IF manifest.scope = Undefined THEN ACCESS_PUBLIC ELSE Undefined
        /\ (~Truthy(options.forceCommandLineOptions) /\ Declares(manifest, "access")) =>
              result.access.value = manifest.publishConfig.access

\* C5 witness: a scoped manifest without publishConfig.access and no
\* options.access: the call returned access undefined, by default.
C5_Witness ==
    /\ pc = "returned"
    /\ options.access = Undefined
    /\ manifest.scope = Str(<<"@", "a", "c", "m", "e">>)
    /\ ~Declares(manifest, "access")
    /\ options.forceCommandLineOptions = Undefined
    /\ result.access = [value |-> Undefined, isDefault |-> TRUE]

\* C6: validateTag accepts a candidate exactly when it is a string whose
\* trimmed form is non-empty and holds no character that percent-encoding
\* alters; it returns an accepted candidate unchanged and untrimmed, and
\* rejects any other by throwing InvalidTagError carrying the candidate.
C6_ValidateTagContract ==
    Finished =>
        IF TagOk(options.tag)
        THEN pc = "returned" /\ result.tag.value = options.tag
        ELSE pc = "threw" /\ thrown = [error |-> "InvalidTagError", value |-> options.tag]

\* C6 with every candidate free of unpaired surrogates.
C6_ValidateTagContractWellFormed ==
    (\A i \in 1..Len(options.tag.v) : options.tag.v[i] # LoneSurrogate)
        => C6_ValidateTagContract

\* A tag with leading or trailing whitespace around an otherwise valid tag.
PaddedTag(value) ==
    /\ value.type = "string"
    /\ Trim(value.v) # value.v
    /\ TagOk(Str(Trim(value.v)))

\* C7 as stated: with a valid token and registry, an options.tag with leading
\* or trailing whitespace around an otherwise valid tag throws InvalidTagError.
C7_PaddedTagThrows ==
    (/\ Finished
     /\ TokenOk(options.token)
     /\ RegistryOk(RegistryCandidate)
     /\ PaddedTag(options.tag))
        => (pc = "threw" /\ thrown.error = "InvalidTagError")

\* C7 amended: with a valid token and registry, an options.tag with leading or
\* trailing whitespace around an otherwise valid tag is accepted: the call
\* does not throw InvalidTagError, and a returned tag.value is the supplied,
\* untrimmed tag, with isDefault false.
C7_PaddedTagAccepted ==
    (/\ Finished
     /\ TokenOk(options.token)
     /\ RegistryOk(RegistryCandidate)
     /\ PaddedTag(options.tag))
        => /\ thrown.error # "InvalidTagError"
           /\ pc = "returned" => result.tag = [value |-> options.tag, isDefault |-> FALSE]

\* C7 witness: options {token: "abc", tag: "beta "} returned the tag "beta ".
C7_Witness ==
    /\ pc = "returned"
    /\ options.token = Str(<<"a", "b", "c">>)
    /\ options.tag = Str(<<"b", "e", "t", "a", " ">>)
    /\ result.tag = [value |-> Str(<<"b", "e", "t", "a", " ">>), isDefault |-> FALSE]

FirstThreeValid ==
    /\ TokenOk(options.token)
    /\ RegistryOk(RegistryCandidate)
    /\ TagOk(TagCandidate)

\* C8 as stated: with a valid token, registry and tag, the call throws
\* InvalidAccessError for every options.access other than undefined, "public"
\* and "restricted"; for these three it does not, and it returns a supplied
\* "public" or "restricted" unchanged.
C8_AccessSuppliedOnly ==
    (Finished /\ FirstThreeValid) =>
        IF options.access \in {Undefined, ACCESS_PUBLIC, ACCESS_RESTRICTED}
        THEN /\ thrown.error # "InvalidAccessError"
             /\ (pc = "returned" /\ options.access # Undefined) =>
                    result.access.value = options.access
        ELSE pc = "threw" /\ thrown.error = "InvalidAccessError"

\* C8 amended: with a valid token, registry and tag, the call throws
\* InvalidAccessError for every options.access other than undefined, null,
\* "public" and "restricted"; a supplied "public" or "restricted" never throws
\* it and is returned unchanged; for undefined or null the resolved default is
\* validated in its place, and InvalidAccessError is thrown exactly when that
\* default is none of undefined, "public" and "restricted".
C8_AccessOrDefaultValidated ==
    (Finished /\ FirstThreeValid) =>
        CASE options.access \in {ACCESS_PUBLIC, ACCESS_RESTRICTED} ->
                /\ thrown.error # "InvalidAccessError"
                /\ pc = "returned" => result.access.value = options.access
          [] Absent(options.access) ->
                /\ (pc = "threw" /\ thrown.error = "InvalidAccessError")
                      <=> ~AccessOk(ResolveDefaults(manifest, options).defaultAccess)
                /\ pc = "returned" =>
                      result.access.value = ResolveDefaults(manifest, options).defaultAccess
          [] OTHER -> pc = "threw" /\ thrown.error = "InvalidAccessError"

\* C8 witness: options {token: "abc", access: "invalid"} threw InvalidAccessError.
C8_Witness ==
    /\ pc = "threw"
    /\ FirstThreeValid
    /\ options.access = Str(<<"i", "n", "v", "a", "l", "i", "d">>)
    /\ thrown = [error |-> "InvalidAccessError", value |-> options.access]

\* C9: a call whose options.token is a non-empty string never throws
\* InvalidTokenError and returns that token unchanged; a call whose
\* options.token is absent, empty or not a string throws InvalidTokenError,
\* whatever the manifest and the other options.
C9_TokenHasNoDefault ==
    Finished =>
        IF TokenOk(options.token)
        THEN /\ thrown.error # "InvalidTokenError"
             /\ pc = "returned" => result.token = options.token
        ELSE pc = "threw" /\ thrown.error = "InvalidTokenError"

\* C9 witness: a call without options.token threw InvalidTokenError although
\* the manifest declares publishConfig and other options are invalid too.
C9_Witness ==
    /\ pc = "threw"
    /\ options.token = Undefined
    /\ manifest.publishConfig.type = "object"
    /\ ~TagOk(TagCandidate)
    /\ ~StrategyOk(StrategyCandidate)
    /\ thrown.error = "InvalidTokenError"

IsBoolean(value) == value.type = "boolean"

\* Every value of a returned record is in its domain.
InDomain(r) ==
    /\ TokenOk(r.token)
    /\ TagOk(r.tag.value)
    /\ AccessOk(r.access.value)
    /\ StrategyOk(r.strategy.value)
    /\ IsBoolean(r.provenance.value)
    /\ IsBoolean(r.ignoreScripts.value)
    /\ IsBoolean(r.dryRun.value)

\* C10: every returned NormalizedOptions is in-domain; and with
\* forceCommandLineOptions falsy and the raw option absent, an invalid
\* publishConfig.tag makes a call with a valid token and registry throw
\* InvalidTagError, and an invalid publishConfig.access makes a call with a
\* valid token, registry and tag throw InvalidAccessError.
C10_DefaultsValidatedLikeUserValues ==
    /\ pc = "returned" => InDomain(result)
    /\ (/\ Finished
        /\ ~Truthy(options.forceCommandLineOptions)
        /\ options.tag = Undefined
        /\ Declares(manifest, "tag")
        /\ ~TagOk(manifest.publishConfig.tag)
        /\ TokenOk(options.token)
        /\ RegistryOk(RegistryCandidate))
          => (pc = "threw" /\ thrown.error = "InvalidTagError")
    /\ (/\ Finished
        /\ ~Truthy(options.forceCommandLineOptions)
        /\ options.access = Undefined
        /\ Declares(manifest, "access")
        /\ ~AccessOk(manifest.publishConfig.access)
        /\ FirstThreeValid)
          => (pc = "threw" /\ thrown.error = "InvalidAccessError")

\* C10 with every tag candidate free of unpaired surrogates.
C10_DefaultsValidatedWellFormed ==
    (\A i \in 1..Len(TagCandidate.v) : TagCandidate.v[i] # LoneSurrogate)
        => C10_DefaultsValidatedLikeUserValues

====
